---- MODULE Spec2Model ----
(***************************************************************************)
(* Model of sutton1981.py: the Agent (hierarchical gain adaptation,        *)
(* equation C.2) and the SimulatedEnvironment (noisy random walk,          *)
(* equations C.3 and C.4).                                                 *)
(*                                                                         *)
(* Numbers of the Agent.  The arguments are floats (initial_gain: float,   *)
(* b: float, true_y_t: float; main() passes 0.0, 0.001 and env.step()), so *)
(* +, - and * are those of IEEE-754 binary64 with round-to-nearest-even,   *)
(* each result rounded to 53 significant bits, or to a multiple of 2^-1074 *)
(* below the normal range (gradual underflow, down to 0).  A float is      *)
(* <<s, m, e>>: the value (-1)^s * m * 2^e, m a natural held in limbs of   *)
(* Bits bits, least significant first, with 2^52 <= m < 2^53 and           *)
(* e >= -1074 (normal) or 0 < m < 2^52 and e = -1074 (subnormal); zero is  *)
(* <<0, <<>>, 0>> (0.0 and -0.0, equal in Python, are one value).  The int *)
(* 0 the constructor stores is the same value as 0.0 in every operation.   *)
(* Infinities and NaN are not modelled: a result that overflows is the     *)
(* marker Ovf, and a call that produces one is not explored.               *)
(*                                                                         *)
(* Numbers of the SimulatedEnvironment.  The noise is counted in whole     *)
(* units, on which float addition is exact, so plain integers are used.    *)
(*                                                                         *)
(* Lists.  A Python list or numpy array is a sequence; Python index i is   *)
(* TLA+ index i + 1.                                                       *)
(***************************************************************************)
EXTENDS Integers, Sequences, FiniteSets, TLC

\* ------------------------------------------------------------------ bounds
\* Largest gain_depth an Agent is constructed with.
MaxDepth == 2
\* Number of calls, action() or compute_gain(), made on one Agent.
MaxCalls == 4
\* Largest max_steps a SimulatedEnvironment is constructed with.
MaxSteps == 3

\* ---------------------------------------------------------------- naturals
\* A natural of any size: its limbs, least significant first, no leading
\* zero limb; <<>> is 0.
Bits == 14
Base == 2 ^ Bits

RECURSIVE NTrim(_)
NTrim(n) ==
    IF n = <<>> THEN <<>>
    ELSE IF n[Len(n)] = 0 THEN NTrim(SubSeq(n, 1, Len(n) - 1)) ELSE n

RECURSIVE NAddC(_, _, _)
NAddC(a, b, c) ==
    IF a = <<>> /\ b = <<>> THEN (IF c = 0 THEN <<>> ELSE <<c>>)
    ELSE LET x == IF a = <<>> THEN 0 ELSE Head(a)
             y == IF b = <<>> THEN 0 ELSE Head(b)
             t == x + y + c
         IN  <<t % Base>> \o NAddC(IF a = <<>> THEN a ELSE Tail(a),
                                   IF b = <<>> THEN b ELSE Tail(b), t \div Base)

NAdd(a, b) == NAddC(a, b, 0)

\* a - b for a >= b.
RECURSIVE NSubC(_, _, _)
NSubC(a, b, c) ==
    IF a = <<>> THEN <<>>
    ELSE LET y == IF b = <<>> THEN 0 ELSE Head(b)
             t == Head(a) - y - c
         IN  <<t % Base>> \o NSubC(Tail(a), IF b = <<>> THEN b ELSE Tail(b),
                                   IF t < 0 THEN 1 ELSE 0)

NSub(a, b) == NTrim(NSubC(a, b, 0))

\* a < b
RECURSIVE NLess(_, _)
NLess(a, b) ==
    IF Len(a) # Len(b) THEN Len(a) < Len(b)
    ELSE IF a = <<>> THEN FALSE
    ELSE IF a[Len(a)] # b[Len(b)] THEN a[Len(a)] < b[Len(b)]
    ELSE NLess(NTrim(SubSeq(a, 1, Len(a) - 1)), NTrim(SubSeq(b, 1, Len(b) - 1)))

\* a * d + c for one limb d and a carry c.
RECURSIVE NMulLimb(_, _, _)
NMulLimb(a, d, c) ==
    IF a = <<>> THEN (IF c = 0 THEN <<>> ELSE <<c>>)
    ELSE LET t == Head(a) * d + c
         IN  <<t % Base>> \o NMulLimb(Tail(a), d, t \div Base)

RECURSIVE NMulAll(_, _)
NMulAll(a, b) ==
    IF b = <<>> THEN <<>>
    ELSE NAdd(NMulLimb(a, Head(b), 0), <<0>> \o NMulAll(a, Tail(b)))

NMul(a, b) == NTrim(NMulAll(a, b))

\* n * 2^k
NShl(n, k) ==
    IF n = <<>> THEN <<>>
    ELSE [i \in 1..(k \div Bits) |-> 0] \o NMulLimb(n, 2 ^ (k % Bits), 0)

\* n \div 2^k
NShr(n, k) ==
    LET q == k \div Bits
        r == k % Bits
        h == IF q >= Len(n) THEN <<>> ELSE SubSeq(n, q + 1, Len(n))
    IN  NTrim([i \in 1..Len(h) |->
                (h[i] \div 2 ^ r)
                + (IF i < Len(h) THEN (h[i + 1] % 2 ^ r) * 2 ^ (Bits - r) ELSE 0)])

RECURSIVE LimbBits(_)
LimbBits(x) == IF x = 0 THEN 0 ELSE 1 + LimbBits(x \div 2)

\* The number of bits of n.
NBitLen(n) == IF n = <<>> THEN 0 ELSE Bits * (Len(n) - 1) + LimbBits(n[Len(n)])

\* Bit j of n.
NBit(n, j) ==
    IF j \div Bits + 1 > Len(n) THEN 0
    ELSE (n[j \div Bits + 1] \div 2 ^ (j % Bits)) % 2

\* Whether the k lowest bits of n are all 0.
NLowZero(n, k) == NShl(NShr(n, k), k) = n

\* ------------------------------------------------------------------ floats
\* Significant bits of a binary64, and the exponents of its normal range.
Precision == 53
MinExp == -1022
MaxExp == 1023

\* The exponent of the last place of the smallest normal float, which is the
\* unit of the subnormal ones (2^-1074).
MinUnit == MinExp - (Precision - 1)

Zero == <<0, <<>>, 0>>

\* Marker of a value the model does not represent (also: no value returned).
Ovf == <<2, <<>>, 0>>

Defined(x) == x[1] # 2

Max(a, b) == IF a >= b THEN a ELSE b

\* The float m * 2^e of a significand m of at most Precision bits, e being
\* at least MinUnit: zero for m = 0, Ovf above the largest float.
FPack(s, m, e) ==
    IF m = <<>> THEN Zero
    ELSE IF e + NBitLen(m) - 1 > MaxExp THEN Ovf
    ELSE <<s, m, e>>

\* q * 2^e for a rounded significand q of at most Precision + 1 bits (that
\* many when rounding up carried into a new bit).
FNorm(s, q, e) ==
    IF NBitLen(q) > Precision THEN FPack(s, NShr(q, 1), e + 1)
    ELSE FPack(s, q, e)

\* n * 2^e rounded to the nearest multiple of 2^(e + k), ties to the even
\* one, for n # 0: for k > 0 the k lowest bits are dropped, and the rest is
\* raised by one when they are above half, or half and the rest is odd.
FRoundTo(s, n, e, k) ==
    IF k <= 0 THEN FPack(s, NShl(n, -k), e + k)
    ELSE FNorm(s,
               IF /\ NBit(n, k - 1) = 1
                  /\ (~NLowZero(n, k - 1) \/ NBit(n, k) = 1)
               THEN NAdd(NShr(n, k), <<1>>)
               ELSE NShr(n, k),
               e + k)

\* n * 2^e rounded to the nearest float: to Precision bits, or to the unit
\* 2^MinUnit where that is coarser (subnormal results, and 0 below them).
FRound(s, n, e) ==
    IF n = <<>> THEN Zero
    ELSE FRoundTo(s, n, e, Max(NBitLen(n) - Precision, MinUnit - e))

\* The float n / 2^k of a small integer n (exact).
Dyadic(n, k) ==
    FRound(IF n < 0 THEN 1 ELSE 0,
           IF n = 0 THEN <<>> ELSE <<IF n < 0 THEN -n ELSE n>>, -k)

\* The float literal 0.1 (0x1.999999999999ap-4).
Tenth == <<0, <<6554, 9830, 6553, 1638>>, -56>>

\* Python -x
FNeg(x) == IF Defined(x) /\ x # Zero THEN <<1 - x[1], x[2], x[3]>> ELSE x

\* (-1)^sa * a * 2^e + (-1)^sb * b * 2^e, rounded: the magnitudes are added
\* when the signs agree, else the smaller is taken from the larger, whose
\* sign the result has (equal magnitudes give 0).
FAddAligned(sa, a, sb, b, e) ==
    IF sa = sb THEN FRound(sa, NAdd(a, b), e)
    ELSE IF NLess(b, a) THEN FRound(sa, NSub(a, b), e)
    ELSE FRound(sb, NSub(b, a), e)

\* hi + lo for non-zero floats, hi of the larger exponent.  lo is far below
\* half a unit in the last place of hi when the exponents differ by more
\* than 2 * Precision, and the sum is then hi.
FAddOrdered(hi, lo) ==
    IF hi[3] - lo[3] > 2 * Precision THEN hi
    ELSE FAddAligned(hi[1], NShl(hi[2], hi[3] - lo[3]), lo[1], lo[2], lo[3])

\* Python x + y
FAdd(x, y) ==
    IF ~Defined(x) \/ ~Defined(y) THEN Ovf
    ELSE IF x = Zero THEN y
    ELSE IF y = Zero THEN x
    ELSE IF x[3] >= y[3] THEN FAddOrdered(x, y)
    ELSE FAddOrdered(y, x)

\* Python x - y
FSub(x, y) == FAdd(x, FNeg(y))

\* Python x * y
FMul(x, y) ==
    IF ~Defined(x) \/ ~Defined(y) THEN Ovf
    ELSE IF x = Zero \/ y = Zero THEN Zero
    ELSE FRound((x[1] + y[1]) % 2, NMul(x[2], y[2]), x[3] + y[3])

\* ------------------------------------------------------------ Python lists
\* [x] * n : n copies of x, the empty list when n <= 0.
ListTimes(x, n) == IF n <= 0 THEN <<>> ELSE [i \in 1..n |-> x]

\* Whether Python index i names an element of list (negative i counts from
\* the end); any other index raises IndexError.
IndexOk(list, i) == -Len(list) <= i /\ i < Len(list)

\* The TLA+ position of Python index i.
Pos(list, i) == IF i < 0 THEN Len(list) + i + 1 ELSE i + 1

\* ------------------------------------------------------------------- Agent
\* Variant of Agent__init__ that seeds level 0 of the hierarchy with initial_gain.
Agent__init__SeedLevel0(initial_gain, b, gain_depth) ==
    [gain |-> initial_gain,
     y_t |-> Zero,
     b |-> b,
     pe_t |-> Zero,
     pe_t_minus_1 |-> Zero,
     pe_product |-> Zero,
     gain_depth |-> gain_depth,
     gain_hierarchy_values |->
        IF gain_depth + 1 <= 0 THEN <<>>
        ELSE [i \in 1..(gain_depth + 1) |-> IF i = 1 THEN initial_gain ELSE Zero]]

\* Agent.__init__: the fields of a new Agent.  Nothing is validated; a
\* negative gain_depth gives an empty gain_hierarchy_values.
Agent__init__(initial_gain, b, gain_depth) ==
    [gain |-> initial_gain,
     y_t |-> Zero,
     b |-> b,
     pe_t |-> Zero,
     pe_t_minus_1 |-> Zero,
     pe_product |-> Zero,
     gain_depth |-> gain_depth,
     gain_hierarchy_values |-> ListTimes(Zero, gain_depth + 1)]

\* Variant of gain_loop that updates every level from its child's value
\* before the loop (top-to-base order).
gain_loop_stale(values, idx, pe_product) ==
    IF idx < 0 THEN values
    ELSE [i \in 1..Len(values) |->
            IF i <= idx + 1
            THEN FAdd(values[i], FMul(values[i + 1], pe_product))
            ELSE values[i]]

\* The for loop of compute_gain, from index idx down to index 0:
\*   gain_hierarchy_values[idx] += gain_hierarchy_values[idx + 1] * pe_product
RECURSIVE gain_loop(_, _, _)
gain_loop(values, idx, pe_product) ==
    IF idx < 0 THEN values
    ELSE gain_loop(
            [values EXCEPT ![idx + 1] =
                FAdd(values[idx + 1], FMul(values[idx + 2], pe_product))],
            idx - 1, pe_product)

\* The outcome of a call: obj is the object when the call ends, exc the
\* exception it ends with ("None": it returns).
Raised(obj, exc) == [obj |-> obj, exc |-> exc]
Returned(obj) == [obj |-> obj, exc |-> "None"]

\* self with its hierarchy set to values and its gain to level 0:
\*   self.gain = self.gain_hierarchy_values[0]
copy_gain(self, values) ==
    [self EXCEPT !.gain_hierarchy_values = values, !.gain = values[1]]

\* Variant of compute_gain that does not rewrite the last level to b.
compute_gain_keep_last(self) ==
    IF ~IndexOk(self.gain_hierarchy_values, -1)
    THEN Raised([self EXCEPT !.pe_product = FMul(self.pe_t, self.pe_t_minus_1)],
                "IndexError")
    ELSE Returned(copy_gain(
            [self EXCEPT !.pe_product = FMul(self.pe_t, self.pe_t_minus_1)],
            gain_loop(self.gain_hierarchy_values, self.gain_depth - 1,
                      FMul(self.pe_t, self.pe_t_minus_1))))

\* Variant of compute_gain that does not copy level 0 into gain.
compute_gain_no_copy(self) ==
    IF ~IndexOk(self.gain_hierarchy_values, -1)
    THEN Raised([self EXCEPT !.pe_product = FMul(self.pe_t, self.pe_t_minus_1)],
                "IndexError")
    ELSE Returned(
            [self EXCEPT
                !.pe_product = FMul(self.pe_t, self.pe_t_minus_1),
                !.gain_hierarchy_values =
                    gain_loop([self.gain_hierarchy_values EXCEPT
                                  ![Pos(self.gain_hierarchy_values, -1)] = self.b],
                              self.gain_depth - 1,
                              FMul(self.pe_t, self.pe_t_minus_1))])

\* compute_gain from its second statement on, self.pe_product being stored:
\* the assignment to index -1 raises IndexError on an empty list; else the
\* loop runs and level 0 is copied into gain.
compute_gain_levels(self) ==
    IF ~IndexOk(self.gain_hierarchy_values, -1)
    THEN Raised(self, "IndexError")
    ELSE Returned(copy_gain(self,
            gain_loop([self.gain_hierarchy_values EXCEPT
                          ![Pos(self.gain_hierarchy_values, -1)] = self.b],
                      self.gain_depth - 1, self.pe_product)))

\* Agent.compute_gain: obj is the Agent when the call ends, exc the
\* exception it ends with.
compute_gain(self) ==
    compute_gain_levels(
        [self EXCEPT !.pe_product = FMul(self.pe_t, self.pe_t_minus_1)])

\* The first two statements of action:
\*   self.pe_t_minus_1 = self.pe_t;  self.pe_t = true_y_t - self.y_t
action_errors(self, true_y_t) ==
    [self EXCEPT !.pe_t_minus_1 = self.pe_t,
                 !.pe_t = FSub(true_y_t, self.y_t)]

\* self.y_t += self.gain * self.pe_t
action_predict(self) ==
    [self EXCEPT !.y_t = FAdd(self.y_t, FMul(self.gain, self.pe_t))]

\* The end of action after compute_gain ended as r: the exception goes on
\* to the caller (ret is Ovf), else y_t is updated and returned.
action_end(r) ==
    IF r.exc # "None"
    THEN [obj |-> r.obj, exc |-> r.exc, ret |-> Ovf]
    ELSE [obj |-> action_predict(r.obj), exc |-> "None",
          ret |-> action_predict(r.obj).y_t]

\* action from its third statement on.
action_adapt(self) ==
    action_end(IF self.gain_depth # 0 THEN compute_gain(self) ELSE Returned(self))

\* Variant of action that adapts the gain at every depth, 0 included.
action_always_adapt(self, true_y_t) ==
    action_end(compute_gain(action_errors(self, true_y_t)))

\* Agent.action: obj is the Agent when the call ends, exc the exception it
\* ends with, ret the value it returns (Ovf when it raises).
action(self, true_y_t) ==
    action_adapt(action_errors(self, true_y_t))

\* Every number of an Agent is a value the model represents.
AgentDefined(a) ==
    /\ Defined(a.gain) /\ Defined(a.y_t) /\ Defined(a.pe_t)
    /\ Defined(a.pe_t_minus_1) /\ Defined(a.pe_product)
    /\ \A i \in 1..Len(a.gain_hierarchy_values) : Defined(a.gain_hierarchy_values[i])

\* The single-level rule of equation C.2, the reference of the depth-1 case:
\*   gain += b * pe_t * pe_t_minus_1;  y_t += gain * pe_t
\* evaluated as written, left to right: (b * pe_t) * pe_t_minus_1.
DirectInit == [gain |-> Zero, y_t |-> Zero, pe_t |-> Zero, pe_t_minus_1 |-> Zero]

\* One step of the rule, its new error pe and new gain being given.
RuleStep(d, pe, gain) ==
    [gain |-> gain, y_t |-> FAdd(d.y_t, FMul(gain, pe)),
     pe_t |-> pe, pe_t_minus_1 |-> d.pe_t]

DirectRule(d, b, true_y_t) ==
    RuleStep(d, FSub(true_y_t, d.y_t),
             FAdd(d.gain, FMul(FMul(b, FSub(true_y_t, d.y_t)), d.pe_t)))

\* The same rule with the product of the two errors formed first:
\*   gain += b * (pe_t * pe_t_minus_1);  y_t += gain * pe_t
GroupedRule(d, b, true_y_t) ==
    RuleStep(d, FSub(true_y_t, d.y_t),
             FAdd(d.gain, FMul(b, FMul(FSub(true_y_t, d.y_t), d.pe_t))))

DirectDefined(d) ==
    Defined(d.gain) /\ Defined(d.y_t) /\ Defined(d.pe_t) /\ Defined(d.pe_t_minus_1)

\* ---------------------------------------------------- SimulatedEnvironment
\* The values one draw of Normal(0, scale) is taken from: exactly 0 when
\* scale = 0, otherwise a nonzero value of either sign (in units of scale).
Noise(scale) == IF scale = 0 THEN {0} ELSE {-scale, scale}

\* np.random.normal(loc=0.0, scale=scale, size=size): the arrays the call can
\* return; none when it raises ValueError (scale < 0 or size < 0).
normal(scale, size) ==
    IF scale < 0 \/ size < 0 THEN {} ELSE [1..size -> Noise(scale)]

\* SimulatedEnvironment.__init__ with the two arrays np.random.normal drew.
SimulatedEnvironment__init__(sa, sb, max_steps, list_1, list_2) ==
    [z_t |-> 0,
     y_t |-> 0,
     sa |-> sa,
     sb |-> sb,
     a_t |-> 0,
     b_t |-> 0,
     max_steps |-> max_steps,
     random_normal_list_1 |-> list_1,
     random_normal_list_2 |-> list_2,
     internal_count |-> 0]

\* Variant of step that wraps the cursor around the arrays.
step_wrap(self) ==
    LET n == Len(self.random_normal_list_1)
        i == IF n = 0 THEN 0 ELSE self.internal_count % n
    IN  IF n = 0 THEN [obj |-> self, exc |-> "IndexError", ret |-> 0]
        ELSE LET a == self.random_normal_list_1[i + 1]
                 b == self.random_normal_list_2[i + 1]
                 y == self.z_t + b
             IN  [obj |-> [self EXCEPT !.a_t = a, !.b_t = b, !.y_t = y,
                                       !.z_t = self.z_t + a,
                                       !.internal_count = self.internal_count + 1],
                  exc |-> "None", ret |-> y]

\* Variant of step that advances z_t before computing y_t.
step_walk_first(self) ==
    IF ~IndexOk(self.random_normal_list_1, self.internal_count)
    THEN [obj |-> self, exc |-> "IndexError", ret |-> 0]
    ELSE LET a == self.random_normal_list_1[Pos(self.random_normal_list_1, self.internal_count)]
             s1 == [self EXCEPT !.a_t = a]
         IN  IF ~IndexOk(s1.random_normal_list_2, s1.internal_count)
             THEN [obj |-> s1, exc |-> "IndexError", ret |-> 0]
             ELSE LET b == s1.random_normal_list_2[Pos(s1.random_normal_list_2, s1.internal_count)]
                      z == s1.z_t + a
                      y == z + b
                  IN  [obj |-> [s1 EXCEPT !.b_t = b, !.y_t = y, !.z_t = z,
                                          !.internal_count = s1.internal_count + 1],
                       exc |-> "None", ret |-> y]

\* SimulatedEnvironment.step: obj is the environment when the call ends, exc
\* the exception it ends with, ret the value it returns (0 when it raises).
\* Indexing an array at internal_count >= its length raises IndexError.
step(self) ==
    IF ~IndexOk(self.random_normal_list_1, self.internal_count)
    THEN [obj |-> self, exc |-> "IndexError", ret |-> 0]
    ELSE LET a == self.random_normal_list_1[Pos(self.random_normal_list_1, self.internal_count)]
             s1 == [self EXCEPT !.a_t = a]
         IN  IF ~IndexOk(s1.random_normal_list_2, s1.internal_count)
             THEN [obj |-> s1, exc |-> "IndexError", ret |-> 0]
             ELSE LET b == s1.random_normal_list_2[Pos(s1.random_normal_list_2, s1.internal_count)]
                      y == s1.z_t + b
                  IN  [obj |-> [s1 EXCEPT !.b_t = b, !.y_t = y, !.z_t = s1.z_t + a,
                                          !.internal_count = s1.internal_count + 1],
                       exc |-> "None", ret |-> y]

\* Variant of change_variance that also rewinds the cursor.
change_variance_rewind(self, list_2) ==
    [self EXCEPT !.random_normal_list_2 = list_2, !.internal_count = 0]

\* SimulatedEnvironment.change_variance with the array np.random.normal drew.
change_variance(self, list_2) ==
    [self EXCEPT !.random_normal_list_2 = list_2]

\* ------------------------------------------------------------------- state
VARIABLES
    agent,        \* the Agent under study
    twin,         \* an Agent with the same b and gain_depth, another initial_gain, fed the same inputs
    direct,       \* the single-level rule, as written, run side by side with an Agent of depth 1
    grouped,      \* the single-level rule, error product first, run side by side likewise
    initial_gain, \* the initial_gain agent was constructed with
    agent_call,   \* the last call made on agent: its name, argument, outcome, and y_t before it
    n_actions,    \* number of action() calls made on agent
    gain_calls,   \* number of compute_gain() calls a driver made on agent itself
    env,          \* the SimulatedEnvironment
    env_exists,   \* whether its constructor returned
    env_call,     \* the last call made on env: its name and outcome
    step_calls    \* number of step() calls made on env, failed ones included

agent_vars == <<agent, twin, direct, grouped, initial_gain, agent_call, n_actions,
                gain_calls>>
env_vars == <<env, env_exists, env_call, step_calls>>
vars == <<agent, twin, direct, grouped, initial_gain, agent_call, n_actions,
          gain_calls,
          env, env_exists, env_call, step_calls>>

\* ------------------------------------------------------------------ inputs
InitialGains == {Dyadic(0, 0), Dyadic(1, 1)}
BValues == {Tenth, Dyadic(1, 0)}
Depths == (-1)..MaxDepth
TrueValues == {Dyadic(-1, 0), Dyadic(2, 0), Dyadic(3, 0)}
Sigmas == {-1, 0, 1}
StepLimits == (-1)..MaxSteps

\* The initial_gain of twin: another value than agent's.
TwinGain(g) == FAdd(g, Dyadic(1, 0))

\* ------------------------------------------------------------------- agent
AgentConstructed ==
    \E g \in InitialGains, b \in BValues, depth \in Depths :
        /\ agent = Agent__init__(g, b, depth)
        /\ twin = Agent__init__(TwinGain(g), b, depth)
        /\ direct = DirectInit
        /\ grouped = DirectInit
        /\ initial_gain = g
        /\ agent_call = [op |-> "__init__", arg |-> Zero, exc |-> "None",
                         ret |-> Ovf, y_before |-> Zero]
        /\ n_actions = 0
        /\ gain_calls = 0

\* One call agent.action(v), with the same call on twin and, beside an Agent
\* of depth 1, one step of the single-level rule in either reading.
AgentAction(v) ==
    /\ n_actions + gain_calls < MaxCalls
    /\ \E r \in {action(agent, v)}, rt \in {action(twin, v)},
          d \in {IF agent.gain_depth = 1 THEN DirectRule(direct, agent.b, v)
                                         ELSE direct},
          g \in {IF agent.gain_depth = 1 THEN GroupedRule(grouped, agent.b, v)
                                         ELSE grouped} :
           /\ AgentDefined(r.obj) /\ AgentDefined(rt.obj)
           /\ DirectDefined(d) /\ DirectDefined(g)
           /\ agent' = r.obj
           /\ twin' = rt.obj
           /\ direct' = d
           /\ grouped' = g
           /\ agent_call' = [op |-> "action", arg |-> v, exc |-> r.exc,
                             ret |-> r.ret, y_before |-> agent.y_t]
    /\ n_actions' = n_actions + 1
    /\ UNCHANGED <<initial_gain, gain_calls, env_vars>>

\* One call agent.compute_gain() made by a driver itself, with the same call
\* on twin; the single-level rule has no such step.
AgentComputeGain ==
    /\ n_actions + gain_calls < MaxCalls
    /\ \E r \in {compute_gain(agent)}, rt \in {compute_gain(twin)} :
           /\ AgentDefined(r.obj) /\ AgentDefined(rt.obj)
           /\ agent' = r.obj
           /\ twin' = rt.obj
           /\ agent_call' = [op |-> "compute_gain", arg |-> Zero, exc |-> r.exc,
                             ret |-> Ovf, y_before |-> agent.y_t]
    /\ gain_calls' = gain_calls + 1
    /\ UNCHANGED <<direct, grouped, initial_gain, n_actions, env_vars>>

\* ------------------------------------------------------------- environment
EnvConstructed ==
    \E sa \in Sigmas, sb \in Sigmas, max_steps \in StepLimits :
        /\ step_calls = 0
        /\ IF normal(sa, max_steps) # {} /\ normal(sb, max_steps) # {}
           THEN \E list_1 \in normal(sa, max_steps), list_2 \in normal(sb, max_steps) :
                    /\ env = SimulatedEnvironment__init__(sa, sb, max_steps, list_1, list_2)
                    /\ env_exists = TRUE
                    /\ env_call = [op |-> "__init__", exc |-> "None", ret |-> 0]
           ELSE \* np.random.normal raised: no instance; the arrays and the
                \* cursor were never assigned
                /\ env = SimulatedEnvironment__init__(sa, sb, max_steps, <<>>, <<>>)
                /\ env_exists = FALSE
                /\ env_call = [op |-> "__init__", exc |-> "ValueError", ret |-> 0]

\* One call env.step().
EnvStep ==
    /\ env_exists
    /\ step_calls < env.max_steps + 2
    /\ LET r == step(env)
       IN  /\ env' = r.obj
           /\ env_call' = [op |-> "step", exc |-> r.exc, ret |-> r.ret]
    /\ step_calls' = step_calls + 1
    /\ UNCHANGED <<env_exists, agent_vars>>

\* One call env.change_variance(sb).
EnvChangeVariance(sb) ==
    /\ env_exists
    /\ IF normal(sb, env.max_steps) = {}
       THEN /\ env' = env
            /\ env_call' = [op |-> "change_variance", exc |-> "ValueError", ret |-> 0]
       ELSE \E list_2 \in normal(sb, env.max_steps) :
                /\ env' = change_variance(env, list_2)
                /\ env_call' = [op |-> "change_variance", exc |-> "None", ret |-> 0]
    /\ UNCHANGED <<env_exists, step_calls, agent_vars>>

\* ---------------------------------------------------------- specifications
\* An Agent and the calls made on it, action() and compute_gain() in any
\* order; the environment stays as constructed.
InitAgent ==
    /\ AgentConstructed
    /\ env = SimulatedEnvironment__init__(0, 0, 0, <<>>, <<>>)
    /\ env_exists = TRUE
    /\ env_call = [op |-> "__init__", exc |-> "None", ret |-> 0]
    /\ step_calls = 0

NextAgent ==
    \/ \E v \in TrueValues : AgentAction(v)
    \/ AgentComputeGain

SpecAgent == InitAgent /\ [][NextAgent]_vars

\* A SimulatedEnvironment and the calls made on it; the Agent stays as
\* constructed.
InitEnv ==
    /\ EnvConstructed
    /\ agent = Agent__init__(Zero, Zero, 0)
    /\ twin = Agent__init__(Zero, Zero, 0)
    /\ direct = DirectInit
    /\ grouped = DirectInit
    /\ initial_gain = Zero
    /\ agent_call = [op |-> "__init__", arg |-> Zero, exc |-> "None",
                     ret |-> Ovf, y_before |-> Zero]
    /\ n_actions = 0
    /\ gain_calls = 0

NextEnv ==
    \/ EnvStep
    \/ \E sb \in Sigmas : EnvChangeVariance(sb)

SpecEnv == InitEnv /\ [][NextEnv]_vars

\* ------------------------------------------------------------------ claims
\* The sum of the first k elements of list.
RECURSIVE PrefixSum(_, _)
PrefixSum(list, k) == IF k <= 0 THEN 0 ELSE PrefixSum(list, k - 1) + list[k]

\* An action() call on agent has just returned.
ActionReturned == agent_call.op = "action" /\ agent_call.exc = "None"

\* The driver has called action() only: compute_gain() has run inside
\* action() and nowhere else.
ActionsOnly == gain_calls = 0

\* C1 as claimed (depth-1 equivalence): after every action() call on an
\* Agent of depth 1 the call's return value, y_t and gain are those of the
\* single-level rule "gain += b * pe_t * pe_t_minus_1; y_t += gain * pe_t"
\* run on the same inputs from gain = 0, y_t = 0, pe_t = 0, whatever
\* initial_gain was.  The inputs are a sequence of action() calls.
C1_Depth1Equivalence ==
    (agent.gain_depth = 1 /\ agent_call.op = "action" /\ ActionsOnly) =>
        /\ agent_call.exc = "None"
        /\ agent_call.ret = direct.y_t
        /\ agent.y_t = direct.y_t
        /\ agent.gain = direct.gain

\* C1 as amended: the same, against the single-level rule with the product
\* of the two errors formed first,
\* "gain += b * (pe_t * pe_t_minus_1); y_t += gain * pe_t".
C1_Depth1EquivalenceGrouped ==
    (agent.gain_depth = 1 /\ agent_call.op = "action" /\ ActionsOnly) =>
        /\ agent_call.exc = "None"
        /\ agent_call.ret = grouped.y_t
        /\ agent.y_t = grouped.y_t
        /\ agent.gain = grouped.gain
        /\ agent.pe_t = grouped.pe_t
        /\ agent.pe_t_minus_1 = grouped.pe_t_minus_1

\* The scenario b = 0.1, inputs 2, -1, 3: the third call returns -1.144 and
\* leaves gain = -0.48 (pe_t = 2.8 and pe_t_minus_1 = -1 fix the inputs);
\* the values are the floats Python prints as -1.144, -0.48 and 2.8.
C1_Witness ==
    /\ agent.gain_depth = 1 /\ agent.b = Tenth /\ initial_gain = Dyadic(1, 1)
    /\ n_actions = 3 /\ ActionsOnly /\ agent_call.arg = Dyadic(3, 0)
    /\ agent.pe_t = <<0, <<9830, 6553, 9830, 1433>>, -51>>
    /\ agent.pe_t_minus_1 = Dyadic(-1, 0)
    /\ agent_call.ret = <<1, <<15335, 1703, 7471, 1171>>, -52>>
    /\ agent.gain = <<1, <<7864, 11796, 1310, 1966>>, -54>>
    /\ grouped.y_t = agent_call.ret /\ grouped.gain = agent.gain

\* C2 (depth-0 invariance): under any sequence of action() calls an Agent
\* of depth 0 keeps gain = initial_gain in every state, and every action(v)
\* call sets y_t to y_t + initial_gain * (v - y_t) and returns it.
C2_Depth0Invariance ==
    (agent.gain_depth = 0 /\ ActionsOnly) =>
        /\ agent.gain = initial_gain
        /\ agent_call.op = "action" =>
            /\ agent_call.exc = "None"
            /\ agent.y_t = FAdd(agent_call.y_before,
                                FMul(initial_gain,
                                     FSub(agent_call.arg, agent_call.y_before)))
            /\ agent_call.ret = agent.y_t

\* Depth 0, a nonzero gain, several calls, and a prediction that moved.
C2_Witness ==
    /\ agent.gain_depth = 0 /\ initial_gain = Dyadic(1, 1) /\ n_actions >= 3
    /\ ActionsOnly
    /\ agent_call.op = "action" /\ agent.y_t # agent_call.y_before
    /\ agent.pe_t_minus_1 # Zero

\* C3 (environment boundedness): on an environment built with max_steps > 0,
\* the k-th step() call returns when k <= max_steps and raises IndexError,
\* leaving the cursor at max_steps, when k > max_steps, whatever
\* change_variance() calls came in between.
C3_StepBoundedness ==
    (env_exists /\ env.max_steps > 0 /\ env_call.op = "step") =>
        IF step_calls <= env.max_steps
        THEN env_call.exc = "None" /\ env.internal_count = step_calls
        ELSE env_call.exc = "IndexError" /\ env.internal_count = env.max_steps

\* The (max_steps + 1)-th call has just failed, after change_variance() had
\* replaced an all-zero noise array (sb = 0, yet a nonzero b_t was read).
C3_Witness ==
    /\ env_exists /\ env.max_steps >= 2
    /\ env_call.op = "step" /\ env_call.exc = "IndexError"
    /\ step_calls = env.max_steps + 1
    /\ env.sb = 0 /\ env.b_t # 0

\* C4 (configuration errors are detected at construction): an action() call
\* is always made on an Agent of non-negative depth, and is never the place
\* where a wrong depth shows as an error.
C4_ConfigErrorAtConstruction ==
    agent_call.op = "action" =>
        agent.gain_depth >= 0 /\ agent_call.exc = "None"

\* C5 (hierarchy length): for depth >= 0 the hierarchy has depth + 1 elements
\* in every state, and for depth > 0 its last element is b after every
\* action() call.
C5_HierarchyLength ==
    agent.gain_depth >= 0 =>
        /\ Len(agent.gain_hierarchy_values) = agent.gain_depth + 1
        /\ (agent.gain_depth > 0 /\ agent_call.op = "action") =>
            /\ agent_call.exc = "None"
            /\ agent.gain_hierarchy_values[agent.gain_depth + 1] = agent.b

\* Depth 2 after several calls, the levels above the base having moved.
C5_Witness ==
    /\ agent.gain_depth = 2 /\ n_actions >= 2 /\ ActionReturned
    /\ agent.gain_hierarchy_values[1] # Zero
    /\ agent.gain_hierarchy_values[2] # agent.b
    /\ agent.gain_hierarchy_values[3] = agent.b

\* C6 (initial_gain is dead for depth >= 1): after every action() call, two
\* Agents of the same b and depth >= 1 but different initial_gain, fed the
\* same inputs, have the same y_t, gain, errors and gain hierarchy.
C6_InitialGainDead ==
    (agent.gain_depth >= 1 /\ agent_call.op = "action") =>
        /\ twin.y_t = agent.y_t
        /\ twin.gain = agent.gain
        /\ twin.gain_hierarchy_values = agent.gain_hierarchy_values
        /\ twin.pe_t = agent.pe_t

\* Two Agents of depth 2 built with different gains, after calls that moved
\* the gain away from both.
C6_Witness ==
    /\ agent.gain_depth = 2 /\ n_actions >= 2 /\ ActionReturned
    /\ TwinGain(initial_gain) # initial_gain
    /\ agent.gain # initial_gain /\ agent.gain # TwinGain(initial_gain)
    /\ agent.gain # Zero

\* C7 (change_variance frame): a change_variance() call leaves every field
\* but random_normal_list_2 unchanged (random_normal_list_1, sa, z_t, y_t and
\* the cursor among them) and, when it returns, leaves a
\* random_normal_list_2 of length max_steps; a step() call that returns
\* reads b_t from random_normal_list_2 as it stands before the call, at the
\* cursor, and emits z_t + b_t.
C7_ChangeVarianceFrame ==
    [][/\ env_call'.op = "change_variance" =>
            /\ env' = [env EXCEPT !.random_normal_list_2 = env'.random_normal_list_2]
            /\ env'.random_normal_list_1 = env.random_normal_list_1
            /\ env'.sa = env.sa /\ env'.z_t = env.z_t /\ env'.y_t = env.y_t
            /\ env'.internal_count = env.internal_count
            /\ Len(env'.random_normal_list_2) = env.max_steps
            /\ env_call'.exc # "None" => env' = env
       /\ (env_call'.op = "step" /\ env_call'.exc = "None") =>
            /\ env'.b_t = env.random_normal_list_2[env.internal_count + 1]
            /\ env'.y_t = env.z_t + env'.b_t
            /\ env_call'.ret = env'.y_t
      ]_vars

\* change_variance() has just replaced the noise in the middle of a run:
\* the environment was built with sb = 0 and now holds nonzero noise.
C7_Witness ==
    /\ env_exists /\ env_call.op = "change_variance" /\ env_call.exc = "None"
    /\ env.internal_count >= 1 /\ env.internal_count < env.max_steps
    /\ env.sb = 0 /\ env.random_normal_list_2[env.internal_count + 1] # 0
    /\ env.z_t # 0

\* C8 (recurrence order): an action() call on an Agent of depth >= 1, with
\* product = pe_t * pe_t_minus_1 of the call, leaves level depth equal to b
\* and every level i < depth equal to its value before the call plus product
\* times the value of level i + 1 after the call; gain is the new level 0
\* and is the gain of the prediction update.
C8_RecurrenceOrder ==
    [][(agent_call'.op = "action" /\ n_actions' = n_actions + 1
                                  /\ agent.gain_depth >= 1) =>
        \E depth \in {agent.gain_depth},
           old \in {agent.gain_hierarchy_values},
           new \in {agent'.gain_hierarchy_values},
           true_y_t \in {agent_call'.arg},
           pe_t \in {agent'.pe_t},
           product \in {FMul(agent'.pe_t, agent'.pe_t_minus_1)} :
            /\ pe_t = FSub(true_y_t, agent.y_t)
            /\ agent'.pe_t_minus_1 = agent.pe_t
            /\ new[depth + 1] = agent.b
            /\ \A i \in 1..depth : new[i] = FAdd(old[i], FMul(product, new[i + 1]))
            /\ agent'.gain = new[1]
            /\ agent'.y_t = FAdd(agent.y_t, FMul(new[1], pe_t))
      ]_vars

\* Depth 2 with a nonzero product: level 1 has just moved, so level 0 was
\* updated from a child that differs from its value before the call.
C8_Witness ==
    /\ agent.gain_depth = 2 /\ n_actions >= 3 /\ ActionReturned
    /\ agent.pe_product # Zero
    /\ agent.gain_hierarchy_values[2] # Zero
    /\ agent.gain_hierarchy_values[1] # Zero

\* C9 (step ordering): the k-th step() call that returns, returns the sum of
\* the first k - 1 elements of random_normal_list_1 plus element k of
\* random_normal_list_2 as it stands, and leaves z_t the sum of the first k
\* elements of random_normal_list_1 and the cursor at k.
C9_StepOrdering ==
    (env_exists /\ env_call.op = "step" /\ env_call.exc = "None") =>
        LET k == env.internal_count
        IN  /\ k = step_calls /\ 1 <= k /\ k <= env.max_steps
            /\ env_call.ret = PrefixSum(env.random_normal_list_1, k - 1)
                              + env.random_normal_list_2[k]
            /\ env.y_t = env_call.ret
            /\ env.z_t = PrefixSum(env.random_normal_list_1, k)

\* The third step of a walk that moved, with nonzero observation noise.
C9_Witness ==
    /\ env_exists /\ env_call.op = "step" /\ env_call.exc = "None"
    /\ env.internal_count = 3 /\ env.sa = 1
    /\ env.z_t # env.y_t /\ env.b_t # 0 /\ env.y_t # env.b_t

\* C10 as claimed (effective gain is level 0 at every depth >= 0): after
\* every action() call that returns on an Agent of depth >= 0, gain equals
\* gain_hierarchy_values[0] and is the gain of the prediction update.
C10_GainIsLevel0_AllDepths ==
    (agent.gain_depth >= 0 /\ ActionReturned /\ ActionsOnly) =>
        /\ agent.gain = agent.gain_hierarchy_values[1]
        /\ agent.y_t = FAdd(agent_call.y_before, FMul(agent.gain, agent.pe_t))

\* C10 as amended: after every action() call the gain of the prediction
\* update is agent.gain; for depth >= 1 it equals gain_hierarchy_values[0];
\* for depth 0, under a sequence of action() calls, it is initial_gain
\* while gain_hierarchy_values[0] stays 0.
C10_GainIsLevel0 ==
    (agent.gain_depth >= 0 /\ agent_call.op = "action") =>
        /\ agent_call.exc = "None"
        /\ agent.y_t = FAdd(agent_call.y_before, FMul(agent.gain, agent.pe_t))
        /\ agent.gain_depth >= 1 => agent.gain = agent.gain_hierarchy_values[1]
        /\ (agent.gain_depth = 0 /\ ActionsOnly) =>
            /\ agent.gain = initial_gain
            /\ agent.gain_hierarchy_values[1] = Zero

\* Depth 1 with an adapted, nonzero gain of a nonzero update.
C10_Witness ==
    /\ agent.gain_depth >= 1 /\ n_actions >= 2 /\ ActionReturned
    /\ agent.gain # Zero /\ agent.gain # initial_gain
    /\ agent.gain = agent.gain_hierarchy_values[1]
    /\ agent.y_t # agent_call.y_before

====
